---------------------------- MODULE Spec2Model ----------------------------
(***************************************************************************)
(* A model of the attribute similarity analyzer (attribute_analyzer.py and *)
(* the Streamlit front end app.py).                                        *)
(*                                                                         *)
(* A Python str is a sequence of one-character strings.  A spreadsheet     *)
(* cell is a record [type, s]: its Python type and the characters of       *)
(* str(cell); a label is a cell of type "str".                             *)
(***************************************************************************)
EXTENDS Integers, Sequences, FiniteSets, TLC

(***************************************************************************)
(* Characters and the str / re primitives the program uses.                *)
(***************************************************************************)
UpperChars == <<"A","B","C","D","E","F","G","H","I","J","K","L","M",
                "N","O","P","Q","R","S","T","U","V","W","X","Y","Z">>

LowerChars == <<"a","b","c","d","e","f","g","h","i","j","k","l","m",
                "n","o","p","q","r","s","t","u","v","w","x","y","z">>

Digits == {"0","1","2","3","4","5","6","7","8","9"}

\* \d of the re module
IsDigit(c) == c \in Digits

\* \s of the re module, and the characters str.strip() removes
IsSpace(c) == c \in {" ", "\t", "\n"}

IsUpper(c) == \E k \in 1..Len(UpperChars) : UpperChars[k] = c

IsLower(c) == \E k \in 1..Len(LowerChars) : LowerChars[k] = c

\* \w of the re module
IsWord(c) == IsUpper(c) \/ IsLower(c) \/ IsDigit(c) \/ c = "_"

\* str.lower() on one character
LowerChar(c) ==
    IF IsUpper(c)
    THEN LowerChars[CHOOSE k \in 1..Len(UpperChars) : UpperChars[k] = c]
    ELSE c

\* str.lower()
lower(s) == [k \in 1..Len(s) |-> LowerChar(s[k])]

\* str.strip()
strip(s) ==
    LET kept == {k \in 1..Len(s) : ~IsSpace(s[k])}
    IN  IF kept = {} THEN <<>>
        ELSE LET first == CHOOSE k \in kept : \A m \in kept : k <= m
                 last  == CHOOSE k \in kept : \A m \in kept : m <= k
             IN  SubSeq(s, first, last)

\* the least position of a set of positions; Len(s) + 1 when it is empty
first_of(hits, s) ==
    IF hits = {} THEN Len(s) + 1
    ELSE CHOOSE k \in hits : \A m \in hits : k <= m

\* the number of whitespace characters of s from position pos on
SpaceRun(s, pos) ==
    first_of({k \in pos..Len(s) : ~IsSpace(s[k])}, s) - pos

\* the number of whitespace characters of s before position q, back to pos
SpaceRunBack(s, pos, q) ==
    LET others == {k \in pos..(q - 1) : ~IsSpace(s[k])}
    IN  IF others = {} THEN q - pos
        ELSE q - 1 - (CHOOSE k \in others : \A m \in others : m <= k)

\* re.sub(r'(?<![\d])\.(?![\d])', '', text) from position pos on: a period
\* goes when neither neighbour (in the text given) is a digit
RECURSIVE SubPeriods(_, _)
SubPeriods(s, pos) ==
    LET q == first_of({k \in pos..Len(s) :
                        /\ s[k] = "."
                        /\ ~(k > 1 /\ IsDigit(s[k - 1]))
                        /\ ~(k < Len(s) /\ IsDigit(s[k + 1]))}, s)
    IN  IF q > Len(s) THEN SubSeq(s, pos, Len(s))
        ELSE SubSeq(s, pos, q - 1) \o SubPeriods(s, q + 1)

\* re.sub(r'\s*P\s*', repl, text) for a one-character P, from position pos
\* on: the leftmost match is the next P with the whitespace on both sides
RECURSIVE SubAround(_, _, _, _)
SubAround(s, paren, repl, pos) ==
    LET q == first_of({k \in pos..Len(s) : s[k] = paren}, s)
    IN  IF q > Len(s) THEN SubSeq(s, pos, Len(s))
        ELSE SubSeq(s, pos, q - 1 - SpaceRunBack(s, pos, q))
             \o repl
             \o SubAround(s, paren, repl, q + 1 + SpaceRun(s, q + 1))

\* re.sub(r'\s+', ' ', text) from position pos on
RECURSIVE SubSpaces(_, _)
SubSpaces(s, pos) ==
    LET q == first_of({k \in pos..Len(s) : IsSpace(s[k])}, s)
    IN  IF q > Len(s) THEN SubSeq(s, pos, Len(s))
        ELSE SubSeq(s, pos, q - 1) \o <<" ">>
             \o SubSpaces(s, q + SpaceRun(s, q))

\* re.sub(r'[^\w\s]', '', attr)
SubPunctuation(s) == SelectSeq(s, LAMBDA c : IsWord(c) \/ IsSpace(c))

(***************************************************************************)
(* Cells.                                                                  *)
(***************************************************************************)
Str(s) == [type |-> "str", s |-> s]

isinstance_str(cell) == cell.type = "str"

pd_isna(cell) == cell.type = "nan"

(***************************************************************************)
(* normalize_text and are_case_variants.                                   *)
(***************************************************************************)
\* the steps normalize_text applies to a str
normalize_steps(s) ==
    LET t1 == strip(lower(s))
        t2 == SubPeriods(t1, 1)
        t3 == SubAround(t2, "(", <<" ", "(">>, 1)
        t4 == SubAround(t3, ")", <<")", " ">>, 1)
        t5 == SubSpaces(t4, 1)
    IN  strip(t5)

\* normalize_text(text): a str; a non-string is returned as str(text), as is
normalize_text(text) ==
    IF ~isinstance_str(text) THEN text.s ELSE normalize_steps(text.s)

\* are_case_variants(attr1, attr2), for two str (re.sub raises TypeError on
\* anything else: see compare)
are_case_variants(attr1, attr2) ==
    LET clean1 == lower(SubPunctuation(attr1.s))
        clean2 == lower(SubPunctuation(attr2.s))
    IN  clean1 = clean2 /\ attr1 # attr2

(***************************************************************************)
(* The similarity scorer: thefuzz.fuzz.ratio.  thefuzz hands the two       *)
(* strings to rapidfuzz.fuzz.ratio, the normalized Indel similarity        *)
(* 100 * 2 * lcs / (len1 + len2) (100 for two empty strings), and returns  *)
(* int(round(.)); Python's round() takes a tie to the even neighbour.      *)
(* The quotient is exact here, a float in the library.                     *)
(***************************************************************************)
Max(x, y) == IF x >= y THEN x ELSE y

\* the length of the common prefix of s1[k1..] and s2[k2..]
CommonPrefix(s1, k1, s2, k2) ==
    LET n == IF Len(s1) - k1 <= Len(s2) - k2
             THEN Len(s1) - k1 + 1 ELSE Len(s2) - k2 + 1
        differ == {m \in 0..(n - 1) : s1[k1 + m] # s2[k2 + m]}
    IN  IF differ = {} THEN Max(n, 0)
        ELSE CHOOSE m \in differ : \A d \in differ : m <= d

\* the length of the common suffix of s1[..k1] and s2[..k2]
CommonSuffix(s1, k1, s2, k2) ==
    LET n == IF k1 <= k2 THEN k1 ELSE k2
        differ == {m \in 0..(n - 1) : s1[k1 - m] # s2[k2 - m]}
    IN  IF differ = {} THEN Max(n, 0)
        ELSE CHOOSE m \in differ : \A d \in differ : m <= d

\* one row of the longest-common-subsequence table: row[j + 1] is the lcs of
\* the prefix of s1 ending with c and s2[1..j]
RECURSIVE LcsRow(_, _, _, _)
LcsRow(prev, c, s2, row) ==
    LET j == Len(row)
    IN  IF j > Len(s2) THEN row
        ELSE LcsRow(prev, c, s2,
                    Append(row, IF c = s2[j] THEN prev[j] + 1
                                ELSE Max(prev[j + 1], row[j])))

RECURSIVE LcsRows(_, _, _, _)
LcsRows(s1, s2, i, prev) ==
    IF i > Len(s1) THEN prev[Len(s2) + 1]
    ELSE LcsRows(s1, s2, i + 1, LcsRow(prev, s1[i], s2, <<0>>))

\* the length of a longest common subsequence; the common prefix and suffix
\* are taken off first, as rapidfuzz does
lcs_length(s1, s2) ==
    LET p  == CommonPrefix(s1, 1, s2, 1)
        r1 == SubSeq(s1, p + 1, Len(s1))
        r2 == SubSeq(s2, p + 1, Len(s2))
        q  == CommonSuffix(r1, Len(r1), r2, Len(r2))
        m1 == SubSeq(r1, 1, Len(r1) - q)
        m2 == SubSeq(r2, 1, Len(r2) - q)
    IN  p + q + LcsRows(m1, m2, 1, [j \in 1..(Len(m2) + 1) |-> 0])

\* int(round(num / den)) for num >= 0, den > 0
round(num, den) ==
    LET q == num \div den
        r == num % den
    IN  IF 2 * r < den THEN q
        ELSE IF 2 * r > den THEN q + 1
        ELSE IF q % 2 = 0 THEN q ELSE q + 1

\* a faulty variant: the ratio is taken over the first string alone
ratio_first(s1, s2) ==
    IF Len(s1) = 0 THEN 100
    ELSE round(100 * lcs_length(s1, s2), Len(s1))

\* fuzz.ratio(s1, s2)
ratio(s1, s2) ==
    IF Len(s1) + Len(s2) = 0 THEN 100
    ELSE round(200 * lcs_length(s1, s2), Len(s1) + Len(s2))

(***************************************************************************)
(* difflib.SequenceMatcher(None, a, b).get_matching_blocks() and           *)
(* find_differences.  No element is junk: isjunk is None, and the autojunk *)
(* heuristic applies only to a second string of 200 elements or more.      *)
(* Blocks are <<i, j, size>> with Python's 0-based offsets.                *)
(***************************************************************************)
\* the length of the common prefix of a[i:ahi] and b[j:bhi] (0-based)
MatchLen(a, i, ahi, b, j, bhi) ==
    CommonPrefix(SubSeq(a, 1, ahi), i + 1, SubSeq(b, 1, bhi), j + 1)

\* find_longest_match(alo, ahi, blo, bhi): a longest block common to
\* a[alo:ahi] and b[blo:bhi]; of those the one starting earliest in a, and
\* then earliest in b; <<alo, blo, 0>> when nothing matches
find_longest_match(a, b, alo, ahi, blo, bhi) ==
    LET starts == (alo..(ahi - 1)) \X (blo..(bhi - 1))
        size(p) == MatchLen(a, p[1], ahi, b, p[2], bhi)
        sized == {<<p[1], p[2], size(p)>> : p \in starts}
        found == {x \in sized : x[3] > 0}
    IN  IF found = {} THEN <<alo, blo, 0>>
        ELSE CHOOSE x \in found :
                \A y \in found :
                    \/ x[3] > y[3]
                    \/ x[3] = y[3] /\ x[1] < y[1]
                    \/ x[3] = y[3] /\ x[1] = y[1] /\ x[2] <= y[2]

\* the blocks get_matching_blocks collects, sorted
RECURSIVE matching_blocks(_, _, _, _, _, _)
matching_blocks(a, b, alo, ahi, blo, bhi) ==
    LET x == find_longest_match(a, b, alo, ahi, blo, bhi)
        i == x[1]
        j == x[2]
        k == x[3]
    IN  IF k = 0 THEN <<>>
        ELSE (IF alo < i /\ blo < j
              THEN matching_blocks(a, b, alo, i, blo, j) ELSE <<>>)
             \o <<x>>
             \o (IF i + k < ahi /\ j + k < bhi
                 THEN matching_blocks(a, b, i + k, ahi, j + k, bhi) ELSE <<>>)

\* adjacent blocks collapsed into one: cur is the block being grown
RECURSIVE non_adjacent(_, _, _)
non_adjacent(blocks, n, cur) ==
    IF n > Len(blocks)
    THEN IF cur[3] > 0 THEN <<cur>> ELSE <<>>
    ELSE LET nxt == blocks[n]
         IN  IF cur[1] + cur[3] = nxt[1] /\ cur[2] + cur[3] = nxt[2]
             THEN non_adjacent(blocks, n + 1,
                               <<cur[1], cur[2], cur[3] + nxt[3]>>)
             ELSE (IF cur[3] > 0 THEN <<cur>> ELSE <<>>)
                  \o non_adjacent(blocks, n + 1, nxt)

\* get_matching_blocks(): the collapsed blocks and the closing dummy
get_matching_blocks(a, b) ==
    non_adjacent(matching_blocks(a, b, 0, Len(a), 0, Len(b)), 1, <<0, 0, 0>>)
        \o << <<Len(a), Len(b), 0>> >>

\* the loop of find_differences from block n on
RECURSIVE differences_from(_, _, _, _, _, _)
differences_from(str1, str2, blocks, n, last_end1, last_end2) ==
    IF n > Len(blocks) THEN <<>>
    ELSE LET i == blocks[n][1]
             j == blocks[n][2]
             size == blocks[n][3]
         IN  (IF i > last_end1 \/ j > last_end2
              THEN << <<SubSeq(str1, last_end1 + 1, i),
                        SubSeq(str2, last_end2 + 1, j)>> >>
              ELSE <<>>)
             \o differences_from(str1, str2, blocks, n + 1, i + size, j + size)

\* a faulty variant: the normalized strings are compared, not the raw ones
find_differences_normalized(str1, str2) ==
    LET n1 == normalize_steps(str1)
        n2 == normalize_steps(str2)
    IN  differences_from(n1, n2, get_matching_blocks(n1, n2), 1, 0, 0)

\* find_differences(str1, str2): the <<part of str1, part of str2>> pairs
find_differences(str1, str2) ==
    differences_from(str1, str2, get_matching_blocks(str1, str2), 1, 0, 0)

\* " vs ".join(parts)
RECURSIVE join_vs(_, _)
join_vs(parts, n) ==
    IF n > Len(parts) THEN <<>>
    ELSE IF n = Len(parts) THEN parts[n]
    ELSE parts[n] \o <<" ", "v", "s", " ">> \o join_vs(parts, n + 1)

\* diff_text: " vs ".join([f"{d1} → {d2}" for d1, d2 in diffs if d1 or d2])
diff_text(diffs) ==
    LET shown == SelectSeq(diffs, LAMBDA d : d[1] # <<>> \/ d[2] # <<>>)
        parts == [n \in 1..Len(shown) |->
                    shown[n][1] \o <<" ", "→", " ">> \o shown[n][2]]
    IN  join_vs(parts, 1)

(***************************************************************************)
(* The first column of the sheet: pandas' dropna() and unique().           *)
(***************************************************************************)
dropna(column) == SelectSeq(column, LAMBDA cell : ~pd_isna(cell))

\* unique(): the values in the order of their first occurrence
RECURSIVE unique(_)
unique(column) ==
    IF column = <<>> THEN <<>>
    ELSE LET front == unique(SubSeq(column, 1, Len(column) - 1))
             cell  == column[Len(column)]
         IN  IF \E k \in 1..Len(front) : front[k] = cell
             THEN front
             ELSE Append(front, cell)

(***************************************************************************)
(* find_similar_attributes.  similar_groups, a defaultdict(list), is the   *)
(* sequence of its items [key, value] in insertion order; a value is a     *)
(* sequence of <<attribute, score>>.                                       *)
(***************************************************************************)
has_key(similar_groups, key) ==
    \E k \in 1..Len(similar_groups) : similar_groups[k].key = key

\* a faulty variant: the base attribute is appended in place of the candidate
append_base(similar_groups, attr1, attr2, similarity) ==
    IF has_key(similar_groups, attr1)
    THEN [k \in 1..Len(similar_groups) |->
            IF similar_groups[k].key = attr1
            THEN [similar_groups[k] EXCEPT
                    !.value = Append(@, <<attr1, similarity>>)]
            ELSE similar_groups[k]]
    ELSE Append(similar_groups,
                [key |-> attr1, value |-> << <<attr1, similarity>> >>])

\* similar_groups[attr1].append((attr2, similarity))
append(similar_groups, attr1, attr2, similarity) ==
    IF has_key(similar_groups, attr1)
    THEN [k \in 1..Len(similar_groups) |->
            IF similar_groups[k].key = attr1
            THEN [similar_groups[k] EXCEPT
                    !.value = Append(@, <<attr2, similarity>>)]
            ELSE similar_groups[k]]
    ELSE Append(similar_groups,
                [key |-> attr1, value |-> << <<attr2, similarity>> >>])

\* a faulty variant: the comparison is turned round
similar_enough_below(similarity, similarity_threshold) ==
    similarity <= similarity_threshold

\* a faulty variant: the threshold itself is not enough
similar_enough_strict(similarity, similarity_threshold) ==
    similarity > similarity_threshold

\* similarity >= similarity_threshold
similar_enough(similarity, similarity_threshold) ==
    similarity >= similarity_threshold

\* the body of the inner loop for one attr2; raised: are_case_variants hands
\* a non-string to re.sub, which raises TypeError
compare(similar_groups, attr1, base_normalized, attr2, similarity_threshold) ==
    IF attr1 = attr2
    THEN [raised |-> FALSE, groups |-> similar_groups]
    ELSE IF ~isinstance_str(attr1) \/ ~isinstance_str(attr2)
    THEN [raised |-> TRUE, groups |-> similar_groups]
    ELSE IF are_case_variants(attr1, attr2)
    THEN [raised |-> FALSE,
          groups |-> append(similar_groups, attr1, attr2, 100)]
    ELSE LET compare_normalized == normalize_text(attr2)
             similarity == ratio(base_normalized, compare_normalized)
         IN  [raised |-> FALSE,
              groups |-> IF similar_enough(similarity, similarity_threshold)
                         THEN append(similar_groups, attr1, attr2, similarity)
                         ELSE similar_groups]

\* for attr2 in attributes[i+1:], from position j on (1-based)
RECURSIVE inner_loop(_, _, _, _, _, _)
inner_loop(similar_groups, attributes, i, base_normalized, j, similarity_threshold) ==
    IF j > Len(attributes)
    THEN [raised |-> FALSE, groups |-> similar_groups]
    ELSE LET step == compare(similar_groups, attributes[i], base_normalized,
                             attributes[j], similarity_threshold)
         IN  IF step.raised THEN step
             ELSE inner_loop(step.groups, attributes, i, base_normalized,
                             j + 1, similarity_threshold)

\* for i, attr1 in enumerate(attributes), from position i on (1-based)
RECURSIVE outer_loop(_, _, _, _)
outer_loop(similar_groups, attributes, i, similarity_threshold) ==
    IF i > Len(attributes)
    THEN [raised |-> FALSE, groups |-> similar_groups]
    ELSE LET base_normalized == normalize_text(attributes[i])
             row == inner_loop(similar_groups, attributes, i, base_normalized,
                               i + 1, similarity_threshold)
         IN  IF row.raised THEN row
             ELSE outer_loop(row.groups, attributes, i + 1,
                             similarity_threshold)

\* find_similar_attributes(file_path, similarity_threshold), frame being
\* what pd.read_excel(file_path) returns: the call returns similar_groups or
\* raises (IndexError from df.iloc[:, 0] on a frame with no column)
find_similar_attributes(frame, similarity_threshold) ==
    IF ~frame.has_column
    THEN [threshold |-> similarity_threshold, raised |-> TRUE,
          error |-> "IndexError", groups |-> <<>>]
    ELSE LET attributes == unique(dropna(frame.column))
             run == outer_loop(<<>>, attributes, 1, similarity_threshold)
         IN  [threshold |-> similarity_threshold, raised |-> run.raised,
              error |-> IF run.raised THEN "TypeError" ELSE "",
              groups |-> IF run.raised THEN <<>> ELSE run.groups]

(***************************************************************************)
(* export_to_excel and get_unique_filename.  The directory is a function   *)
(* from the names of its files to their contents.  The name                *)
(* f"similarity_{base_name}_{min_threshold}%.xlsx" is the record           *)
(* [base_name, min_threshold, counter |-> 0], and get_unique_filename's    *)
(* f"{name}_{counter}{ext}" the same record with that counter: the first   *)
(* ends in "%" and the second in a digit, so the records are equal exactly *)
(* when the names are.                                                     *)
(***************************************************************************)
Ascii32 == <<" ","!">>

Ascii35 == <<"#","$","%","&","'","(",")","*","+",",","-",".","/",
             "0","1","2","3","4","5","6","7","8","9",":",";","<","=",">","?",
             "@","A","B","C","D","E","F","G","H","I","J","K","L","M","N","O",
             "P","Q","R","S","T","U","V","W","X","Y","Z","[","\\","]","^","_">>

Ascii97 == <<"a","b","c","d","e","f","g","h","i","j","k","l","m","n","o",
             "p","q","r","s","t","u","v","w","x","y","z","{","|","}","~">>

\* the position of c in table, 0 when it is not there
index(table, c) ==
    IF \E k \in 1..Len(table) : table[k] = c
    THEN CHOOSE k \in 1..Len(table) : table[k] = c
    ELSE 0

\* ord(c) of an ASCII character (the double quote and the backquote, which
\* no label here holds, left out)
ord(c) ==
    IF c = "\t" THEN 9
    ELSE IF c = "\n" THEN 10
    ELSE IF index(Ascii32, c) > 0 THEN 31 + index(Ascii32, c)
    ELSE IF index(Ascii35, c) > 0 THEN 34 + index(Ascii35, c)
    ELSE 96 + index(Ascii97, c)

\* a < b for two str
str_lt(a, b) ==
    LET p == CommonPrefix(a, 1, b, 1)
    IN  IF p = Len(a) THEN p < Len(b)
        ELSE IF p = Len(b) THEN FALSE
        ELSE ord(a[p + 1]) < ord(b[p + 1])

\* all_pairs: the (base_attr, match, score) of every match of every group
RECURSIVE all_pairs(_, _)
all_pairs(similar_groups, k) ==
    IF k > Len(similar_groups) THEN <<>>
    ELSE [n \in 1..Len(similar_groups[k].value) |->
            <<similar_groups[k].key,
              similar_groups[k].value[n][1],
              similar_groups[k].value[n][2]>>]
         \o all_pairs(similar_groups, k + 1)

\* key(x) < key(y) for key = lambda x: (-x[2], x[0])
key_lt(x, y) ==
    \/ x[3] > y[3]
    \/ x[3] = y[3] /\ str_lt(x[1].s, y[1].s)

\* list.sort(key=...): stable
RECURSIVE sort(_)
sort(pairs) ==
    IF pairs = <<>> THEN <<>>
    ELSE LET front == sort(SubSeq(pairs, 1, Len(pairs) - 1))
             x == pairs[Len(pairs)]
             n == Cardinality({k \in 1..Len(front) : ~key_lt(x, front[k])})
         IN  SubSeq(front, 1, n) \o <<x>> \o SubSeq(front, n + 1, Len(front))

\* the data rows of the sheet: one entry for the two rows of a pair
rows(similar_groups) ==
    LET pairs == sort(all_pairs(similar_groups, 1))
    IN  [n \in 1..Len(pairs) |->
            [pair_id |-> n,
             base_attr |-> pairs[n][1],
             match |-> pairs[n][2],
             score |-> pairs[n][3],
             differences |->
                diff_text(find_differences(pairs[n][1].s, pairs[n][2].s))]]

\* os.path.splitext(os.path.basename(input_file_path))[0]
base_name(input_file_path) ==
    CASE input_file_path = "temp_upload.xlsx" -> "temp_upload"
      [] input_file_path = "daemar-full-attribute-list-for-analysis.xlsx"
            -> "daemar-full-attribute-list-for-analysis"

\* os.path.exists(path)
exists(directory, path) == path \in DOMAIN directory

\* the while loop of get_unique_filename from counter on
RECURSIVE next_free(_, _, _)
next_free(directory, path, counter) ==
    LET new_filename == [path EXCEPT !.counter = counter]
    IN  IF ~exists(directory, new_filename) THEN new_filename
        ELSE next_free(directory, path, counter + 1)

\* a faulty variant: the name is taken as it is
get_unique_filename_same(directory, path) == path

\* get_unique_filename(file_path)
get_unique_filename(directory, path) ==
    IF ~exists(directory, path) THEN path
    ELSE next_free(directory, path, 1)

\* export_to_excel(similar_groups, min_threshold, input_file_path): the name
\* and the workbook it saves
export_to_excel(directory, similar_groups, min_threshold, input_file_path) ==
    [output_file |->
        get_unique_filename(directory,
            [base_name |-> base_name(input_file_path),
             min_threshold |-> min_threshold, counter |-> 0]),
     workbook |-> [title |-> min_threshold, rows |-> rows(similar_groups)]]

\* wb.save(output_file)
save(directory, output_file, workbook) ==
    [name \in DOMAIN directory \cup {output_file} |->
        IF name = output_file THEN workbook ELSE directory[name]]

(***************************************************************************)
(* The state: one sheet, the calls made on it, and the output directory.   *)
(***************************************************************************)
VARIABLES
    df,          \* what pd.read_excel(file_path) returns: [has_column, column]
    file_path,   \* the path of the input file
    calls,       \* the last two find_similar_attributes calls, oldest first
    directory,   \* the output directory: file name -> workbook
    exported,    \* what each export_to_excel call saved, in order
    text,        \* a raw cell value handed to normalize_text
    normalized,  \* normalize_text(text), then normalize_text of that
    pair,        \* two normalized strings handed to the scorer
    scores       \* fuzz.ratio of the pair, in both orders

vars == <<df, file_path, calls, directory, exported, text, normalized,
          pair, scores>>

\* the bounds of the model
MaxRows == 3

MaxLongRows == 2

MaxReportRows == 2

MaxExports == 2

MaxCounter == 1

MaxTextLen == 4

MaxScoreLen == 3

LongLabelLen == 100

\* the thresholds tried: the ends of the range, a score between them, and
\* one value beyond each end
Thresholds == {-1, 0, 91, 100, 101}

\* the thresholds of the reports written: the slider's default and its top
ReportThresholds == {90, 100}

\* cells
NaN == [type |-> "nan", s |-> <<"n","a","n">>]

Int5 == [type |-> "int", s |-> <<"5">>]

Float35 == [type |-> "float", s |-> <<"3",".","5">>]

BoolTrue == [type |-> "bool", s |-> <<"T","r","u","e">>]

Color == Str(<<"C","o","l","o","r">>)

color == Str(<<"c","o","l","o","r">>)

Colour == Str(<<"C","o","l","o","u","r">>)

WtKg == Str(<<"W","t"," ","(","k","g",")">>)

WtKgTight == Str(<<"W","t","(","k","g",")">>)

CountryOfOrigin ==
    Str(<<"C","o","u","n","t","r","y"," ","o","f"," ","O","r","i","g","i","n">>)

CountryOfOriginDot == Str(Append(CountryOfOrigin.s, "."))

LongA == Str([k \in 1..LongLabelLen |-> "a"])

LongB == Str([k \in 1..(LongLabelLen + 1) |-> "a"])

Cells == {Color, color, Colour, WtKg, WtKgTight, NaN, Int5}

LongASpace == Str(Append(LongA.s, " "))

LongShort == Str([k \in 1..(LongLabelLen - 1) |-> "a"])

LongCells == {LongShort, LongA, LongB, LongASpace}

ReportCells == {CountryOfOrigin, CountryOfOriginDot, Color}

\* the sequences over S of length at most n
SeqUpTo(S, n) == UNION {[1..k -> S] : k \in 0..n}

\* a sheet with no column at all, and the sheets whose first column is one
\* of columns
NoColumns == [has_column |-> FALSE, column |-> <<>>]

Frames(columns) ==
    {NoColumns} \cup {[has_column |-> TRUE, column |-> c] : c \in columns}

InputFiles ==
    {"temp_upload.xlsx", "daemar-full-attribute-list-for-analysis.xlsx"}

NoFiles == [name \in {} |-> <<>>]

Unscored == [forward |-> <<>>, backward |-> <<>>]

Idle ==
    /\ text = Str(<<>>)
    /\ normalized = <<>>
    /\ pair = << <<>>, <<>> >>
    /\ scores = Unscored

Init ==
    /\ df \in Frames(SeqUpTo(Cells, MaxRows))
    /\ file_path = "temp_upload.xlsx"
    /\ calls = <<>>
    /\ directory = NoFiles
    /\ exported = <<>>
    /\ Idle

InitLong ==
    /\ df \in Frames(SeqUpTo(LongCells, MaxLongRows))
    /\ file_path = "temp_upload.xlsx"
    /\ calls = <<>>
    /\ directory = NoFiles
    /\ exported = <<>>
    /\ Idle

\* the reports an earlier session left: for every threshold, the names with
\* the counters of one set
OldReports(path, counters) ==
    LET names == {[base_name |-> base_name(path), min_threshold |-> T,
                   counter |-> c] : T \in ReportThresholds, c \in counters}
    IN  [name \in names |-> [title |-> name.min_threshold, rows |-> <<>>]]

InitReport ==
    /\ df \in Frames(SeqUpTo(ReportCells, MaxReportRows))
    /\ file_path \in InputFiles
    /\ calls = <<>>
    /\ \E counters \in SUBSET (0..MaxCounter) :
            directory = OldReports(file_path, counters)
    /\ exported = <<>>
    /\ Idle

\* a call of find_similar_attributes(file_path, T)
FindSimilarAttributes(T) ==
    /\ calls' = (IF Len(calls) < 2 THEN calls ELSE Tail(calls))
                    \o <<find_similar_attributes(df, T)>>
    /\ UNCHANGED <<df, file_path, directory, exported, text, normalized,
                   pair, scores>>

\* a call of export_to_excel on what the last call returned
ExportToExcel ==
    /\ calls # <<>>
    /\ ~calls[Len(calls)].raised
    /\ Len(exported) < MaxExports
    /\ LET last == calls[Len(calls)]
           out == export_to_excel(directory, last.groups, last.threshold,
                                  file_path)
       IN  /\ directory' = save(directory, out.output_file, out.workbook)
           /\ exported' = Append(exported,
                    [output_file |-> out.output_file,
                     existed |-> exists(directory, out.output_file),
                     workbook |-> out.workbook])
    /\ UNCHANGED <<df, file_path, calls, text, normalized, pair, scores>>

Next == \E T \in Thresholds : FindSimilarAttributes(T)

NextReport ==
    \/ \E T \in ReportThresholds : FindSimilarAttributes(T)
    \/ ExportToExcel

Spec == Init /\ [][Next]_vars

SpecLong == InitLong /\ [][Next]_vars

SpecReport == InitReport /\ [][NextReport]_vars

(***************************************************************************)
(* normalize_text and fuzz.ratio on their own.                             *)
(***************************************************************************)
TextChars == {"a", "A", ".", "1", " ", "(", ")"}

ScoreChars == {"a", "b", "c"}

RawValues ==
    {Str(s) : s \in SeqUpTo(TextChars, MaxTextLen)}
        \cup {NaN, Int5, Float35, BoolTrue}

NoAnalysis ==
    /\ df = NoColumns
    /\ file_path = "temp_upload.xlsx"
    /\ calls = <<>>
    /\ directory = NoFiles
    /\ exported = <<>>

InitNormalize ==
    /\ NoAnalysis
    /\ text \in RawValues
    /\ normalized = <<>>
    /\ pair = << <<>>, <<>> >>
    /\ scores = Unscored

\* normalize_text(text), and then normalize_text of what that returned
Normalize ==
    /\ Len(normalized) < 2
    /\ normalized' = Append(normalized,
            normalize_text(IF normalized = <<>> THEN text
                           ELSE Str(normalized[Len(normalized)])))
    /\ UNCHANGED <<df, file_path, calls, directory, exported, text, pair,
                   scores>>

SpecNormalize == InitNormalize /\ [][Normalize]_vars

InitScore ==
    /\ NoAnalysis
    /\ text = Str(<<>>)
    /\ normalized = <<>>
    /\ pair \in {p \in SeqUpTo(ScoreChars, MaxScoreLen)
                        \X SeqUpTo(ScoreChars, MaxScoreLen) : p[1] # p[2]}
    /\ scores = Unscored

\* fuzz.ratio(a, b)
ScoreForward ==
    /\ scores.forward = <<>>
    /\ scores' = [scores EXCEPT !.forward = <<ratio(pair[1], pair[2])>>]
    /\ UNCHANGED <<df, file_path, calls, directory, exported, text,
                   normalized, pair>>

\* fuzz.ratio(b, a)
ScoreBackward ==
    /\ scores.backward = <<>>
    /\ scores' = [scores EXCEPT !.backward = <<ratio(pair[2], pair[1])>>]
    /\ UNCHANGED <<df, file_path, calls, directory, exported, text,
                   normalized, pair>>

NextScore == ScoreForward \/ ScoreBackward

SpecScore == InitScore /\ [][NextScore]_vars

(***************************************************************************)
(* The properties.                                                         *)
(***************************************************************************)
\* the labels find_similar_attributes compares on the sheet
attributes_of(frame) == unique(dropna(frame.column))

\* the <<base, candidate, score>> a call reported
Triples(similar_groups) ==
    {all_pairs(similar_groups, 1)[n] :
        n \in 1..Len(all_pairs(similar_groups, 1))}

Returned == {n \in 1..Len(calls) : ~calls[n].raised}

\* C1: of two calls on the same sheet that returned, the one with the higher
\* threshold reports only triples (base, candidate, score) that the one with
\* the lower threshold reports too: raising the threshold adds no pair and
\* changes no score.
C1_ThresholdMonotone ==
    \A m \in Returned : \A n \in Returned :
        calls[m].threshold < calls[n].threshold
            => Triples(calls[n].groups) \subseteq Triples(calls[m].groups)

\* two calls, the higher threshold keeping some of the pairs and losing some
C1_Witness ==
    \E m \in Returned : \E n \in Returned :
        /\ calls[m].threshold < calls[n].threshold
        /\ Triples(calls[n].groups) # {}
        /\ Triples(calls[n].groups) # Triples(calls[m].groups)

\* C2: no pair a call recorded has a candidate equal to its base label.
C2_NoPairOfEqualLabels ==
    \A n \in Returned : \A x \in Triples(calls[n].groups) : x[2] # x[1]

\* a call that recorded pairs on a sheet that repeats a label
C2_Witness ==
    /\ df.has_column
    /\ Len(attributes_of(df)) < Len(dropna(df.column))
    /\ \E n \in Returned : calls[n].groups # <<>>

\* the labels are all str and no two of them are case variants
NoCaseVariants(attributes) ==
    /\ \A i \in 1..Len(attributes) : isinstance_str(attributes[i])
    /\ \A i \in 1..Len(attributes) : \A j \in 1..Len(attributes) :
            ~are_case_variants(attributes[i], attributes[j])

\* C3: at threshold 0, on n distinct labels none of them case variants, the
\* call returns the n(n-1)/2 pairs (i < j in the order of first occurrence),
\* each once, the earlier label as base and the later one as candidate.
C3_EveryPairAtZero ==
    \A n \in 1..Len(calls) :
        LET attributes == attributes_of(df)
            pairs == all_pairs(calls[n].groups, 1)
        IN  (/\ calls[n].threshold = 0
             /\ df.has_column
             /\ NoCaseVariants(attributes))
            => /\ ~calls[n].raised
               /\ 2 * Len(pairs) = Len(attributes) * (Len(attributes) - 1)
               /\ \A i \in 1..Len(attributes) :
                    \A j \in (i + 1)..Len(attributes) :
                        Cardinality({k \in 1..Len(pairs) :
                            /\ pairs[k][1] = attributes[i]
                            /\ pairs[k][2] = attributes[j]}) = 1

\* a call at threshold 0 on three such labels
C3_Witness ==
    /\ df.has_column
    /\ NoCaseVariants(attributes_of(df))
    /\ Len(attributes_of(df)) >= 3
    /\ \E n \in Returned : calls[n].threshold = 0

\* C4 as stated: at threshold 100 every pair recorded is a case variant or a
\* pair whose normalized forms are equal.
C4_OnlyExactAtHundred ==
    \A n \in Returned :
        calls[n].threshold = 100
            => \A x \in Triples(calls[n].groups) :
                    \/ are_case_variants(x[1], x[2])
                    \/ normalize_text(x[1]) = normalize_text(x[2])

\* C4 as amended: at threshold 100 every pair recorded is a case variant, or
\* a pair whose normalized forms are equal, or a pair whose normalized forms
\* hold more than 200 characters together (the rounded score of two
\* different strings reaches 100 from 201 characters on).
C4_OnlyExactAtHundredUpTo200 ==
    \A n \in Returned :
        calls[n].threshold = 100
            => \A x \in Triples(calls[n].groups) :
                    \/ are_case_variants(x[1], x[2])
                    \/ normalize_text(x[1]) = normalize_text(x[2])
                    \/ Len(normalize_text(x[1]))
                            + Len(normalize_text(x[2])) > 200

\* a call at threshold 100 that recorded, through the scorer, a pair whose
\* normalized forms are equal
C4_Witness ==
    \E n \in Returned :
        /\ calls[n].threshold = 100
        /\ \E x \in Triples(calls[n].groups) :
                /\ ~are_case_variants(x[1], x[2])
                /\ normalize_text(x[1]) = normalize_text(x[2])

\* C5: normalize_text is idempotent on every raw cell value, string or not:
\* normalizing what it returned returns the same.
C5_NormalizeIdempotent ==
    Len(normalized) = 2 => normalized[2] = normalized[1]

C7_InvalidThresholdRejected ==
    \A n \in 1..Len(calls) :
        (calls[n].threshold < 0 \/ calls[n].threshold > 100)
            => /\ calls[n].raised
               /\ calls[n].error = "InvalidThresholdError"

\* C8: on a sheet with no label column or with no label in it, the call
\* fails with an InvalidInputError; it returns no mapping.
C8_EmptyInputRejected ==
    \A n \in 1..Len(calls) :
        (~df.has_column \/ attributes_of(df) = <<>>)
            => /\ calls[n].raised
               /\ calls[n].error = "InvalidInputError"

\* C9: no export overwrites a file: each export saved under a name that did
\* not exist when it was chosen, the names of the exports differ from each
\* other, and every report exported is still in the directory as saved.
C9_NeverOverwrites ==
    \A n \in 1..Len(exported) :
        /\ ~exported[n].existed
        /\ exists(directory, exported[n].output_file)
        /\ directory[exported[n].output_file] = exported[n].workbook
        /\ \A m \in 1..Len(exported) :
                m # n => exported[m].output_file # exported[n].output_file

\* two exports of the same workbook into a directory that held the report
\* of that name already
C9_Witness ==
    /\ Len(exported) >= 2
    /\ exported[1].workbook = exported[2].workbook
    /\ exported[1].output_file.counter >= 1

\* the sheet of scenario 2 exported at threshold 90
TrailingPeriodReports ==
    {n \in 1..Len(exported) :
        /\ df.has_column
        /\ attributes_of(df) = <<CountryOfOrigin, CountryOfOriginDot>>
        /\ exported[n].workbook.title = 90}

\* C10 as stated: "Country of Origin" and "Country of Origin." at threshold
\* 90 are reported as one pair with similarity 100 and an empty difference
\* text.
C10_TrailingPeriodNoGap ==
    \A n \in TrailingPeriodReports :
        exported[n].workbook.rows =
            << [pair_id |-> 1, base_attr |-> CountryOfOrigin,
                match |-> CountryOfOriginDot, score |-> 100,
                differences |-> <<>>] >>

\* C10 as amended: they are reported as one pair with similarity 100, and
\* the difference text, taken from the raw labels, is " → ." (the period).
C10_TrailingPeriodGap ==
    \A n \in TrailingPeriodReports :
        exported[n].workbook.rows =
            << [pair_id |-> 1, base_attr |-> CountryOfOrigin,
                match |-> CountryOfOriginDot, score |-> 100,
                differences |-> <<" ", "→", " ", ".">>] >>

\* that sheet was exported at threshold 90
C10_Witness == TrailingPeriodReports # {}

=============================================================================
